---- MODULE Spec2Model ----
(***************************************************************************)
(* Model of src/app.py (UK LPA & NCA lookup): the GeoJSON point-in-polygon *)
(* helpers _point_in_ring and geojson_contains_point, and the OGC feature  *)
(* fetch _fetch_feature_containing_point that is built on them.            *)
(*                                                                         *)
(* Coordinates are doubles.  The vertices of a ring are integers; a query  *)
(* coordinate is an integer plus a multiple of 2^-48, small enough to see  *)
(* the tolerance 1e-12 = 281.47 * 2^-48 from both sides.  Every operation  *)
(* of lines 81-86 is done exactly and then rounded to the nearest double,  *)
(* ties to even, as IEEE 754 does.  A point of a ring is the pair          *)
(* <<lon, lat>>, as the two-element list [lon, lat] of GeoJSON; a ring is  *)
(* a sequence of points.                                                   *)
(* Python indexes from 0 and TLA+ from 1: ring[i] of the source is         *)
(* ring[i + 1] here.                                                       *)
(***************************************************************************)
EXTENDS Integers, Sequences, FiniteSets, TLC

VARIABLES
    pc,     \* position of the modelled call
    lon,    \* query longitude
    lat,    \* query latitude
    ring,   \* the ring argument of _point_in_ring
    geom,   \* the geometry argument of geojson_contains_point
    ret,    \* what the call produced
    resp,   \* the HTTP response of the feature service
    idx,    \* position in the response's feature list (1-based)
    found,  \* what _fetch_feature_containing_point returned
    run     \* the state of one submitted lookup

vars == <<pc, lon, lat, ring, geom, ret, resp, idx, found, run>>

(***************************************************************************)
(* Bounds of the ring inputs.                                              *)
(***************************************************************************)
MaxRingLen == 3

\* The coordinates of the vertices: their differences are powers of two, so
\* that the quotient of line 81 is a double with no fraction below 2^-48.
RingCoord == {0, 64, 128}
Rings == UNION {[1..n -> RingCoord \X RingCoord] : n \in 0..MaxRingLen}

(***************************************************************************)
(* What a call produces: a returned value, or a raised exception.          *)
(***************************************************************************)
Return(v) == [exc |-> "none", val |-> v]
Raise(e) == [exc |-> e, val |-> FALSE]
NoRet == [exc |-> "pending", val |-> FALSE]

Min(a, b) == IF a <= b THEN a ELSE b
Max(a, b) == IF a >= b THEN a ELSE b
Abs(a) == IF a >= 0 THEN a ELSE -a

(***************************************************************************)
(* A geometry argument: Python's None, or a dict that may hold the keys    *)
(* "type" and "coordinates".  ctag tells what "coordinates" holds: the key *)
(* is missing, its value is null, a list, or a non-zero number.            *)
(***************************************************************************)
Geometry(t, rings) ==
    [isNone |-> FALSE, hasType |-> TRUE, type |-> t, ctag |-> "list",
     coordinates |-> rings]
GeometryWithout(t, tag) ==
    [isNone |-> FALSE, hasType |-> TRUE, type |-> t, ctag |-> tag,
     coordinates |-> <<>>]
NoneGeometry ==
    [isNone |-> TRUE, hasType |-> FALSE, type |-> "", ctag |-> "missing",
     coordinates |-> <<>>]
EmptyDict ==
    [isNone |-> FALSE, hasType |-> FALSE, type |-> "", ctag |-> "missing",
     coordinates |-> <<>>]

(***************************************************************************)
(* Doubles.  Dbl(c, f) is the number c + f * 2^-48, for integers c and f   *)
(* with abs(f) * 2^-48 < 1/2; Whole(n) is the integer n.                     *)
(***************************************************************************)
Dbl(c, f) == [int |-> c, frac |-> f]
Whole(n) == Dbl(n, 0)

Less(a, b) == a.int < b.int \/ (a.int = b.int /\ a.frac < b.frac)

RECURSIVE FloorLog2(_)
FloorLog2(n) == IF n < 2 THEN 0 ELSE 1 + FloorLog2(n \div 2)

\* The spacing of the doubles around c + f * 2^-48, in units of 2^-48: a
\* double has 53 significant bits, so below 32 the spacing is a unit or less
\* (1 here), and from 2^e on (e >= 5) it is 2^(e - 4) units.
Ulp(c, f) ==
    IF c = 0 THEN 1
    ELSE LET mag == IF f # 0 /\ ((f > 0) # (c > 0)) THEN Abs(c) - 1 ELSE Abs(c)
         IN  IF mag < 16 THEN 1 ELSE 2^(FloorLog2(mag) - 4)

\* The multiple of m units nearest to f units, ties to the even multiple.
Nearest(f, m) ==
    IF 2 * (f % m) < m THEN f - (f % m)
    ELSE IF 2 * (f % m) > m THEN f - (f % m) + m
    ELSE IF ((f - (f % m)) \div m) % 2 = 0 THEN f - (f % m)
    ELSE f - (f % m) + m

\* The double nearest to the exact result x of an operation, ties to the even
\* significand; an integer of this size is a double.
Fl(x) ==
    CHOOSE d \in {IF v.frac = 0 THEN v
                  ELSE Dbl(v.int, Nearest(v.frac, Ulp(v.int, v.frac))) :
                      v \in {x}} : TRUE

\* a - b, a + b and a * b in doubles.  One factor of every product of lines
\* 81 and 86 is a difference of vertex coordinates, an integer.
FSub(a, b) == Fl(Dbl(a.int - b.int, a.frac - b.frac))
FAdd(a, b) == Fl(Dbl(a.int + b.int, a.frac + b.frac))
FMul(a, b) == Fl(Dbl(a.int * b.int, a.int * b.frac + a.frac * b.int))
\* a / d for an integer d that divides both parts of a.
FDiv(a, d) ==
    IF d > 0 THEN Fl(Dbl(a.int \div d, a.frac \div d))
    ELSE Fl(Dbl((-a.int) \div (-d), (-a.frac) \div (-d)))

\* 1e-12 in units of 2^-48 is 281.47...: TolUnits is its integer part.
TolUnits == 281
\* 281.47... rounded to a multiple of m units.
RoundedTol(m) ==
    IF m = 1 THEN TolUnits
    ELSE LET r == TolUnits % m
         IN  IF 2 * r < m THEN TolUnits - r ELSE TolUnits - r + m

(***************************************************************************)
(* The divisor y2 - y1 + 1e-18 in double precision, as                     *)
(* DenUnits + DenAtto * 1e-18: a non-zero integer difference absorbs the   *)
(* guard, a zero one leaves it.                                            *)
(***************************************************************************)
DenUnits(y1, y2) == y2 - y1
DenAtto(y1, y2) == IF y2 - y1 = 0 THEN 1 ELSE 0

DenominatorIsZero(y1, y2) == DenUnits(y1, y2) = 0 /\ DenAtto(y1, y2) = 0

(***************************************************************************)
(* lon < (x2 - x1) * (lat - y1) / (y2 - y1 + 1e-18) + x1, line 81.  A      *)
(* division by the bare guard 1e-18 gives a quotient beyond every          *)
(* coordinate, of the sign of the numerator.                               *)
(***************************************************************************)
LonBeforeCrossing_PlusX2(qlon, qlat, x1, y1, x2, y2) ==
    \E num \in {FMul(Whole(x2 - x1), FSub(qlat, Whole(y1)))} :
        IF DenUnits(y1, y2) # 0
        THEN Less(qlon, FAdd(FDiv(num, DenUnits(y1, y2)), Whole(x2)))
        ELSE Less(Whole(0), num) \/ (num = Whole(0) /\ Less(qlon, Whole(x2)))

LonBeforeCrossing(qlon, qlat, x1, y1, x2, y2) ==
    \E num \in {FMul(Whole(x2 - x1), FSub(qlat, Whole(y1)))} :
        IF DenUnits(y1, y2) # 0
        THEN Less(qlon, FAdd(FDiv(num, DenUnits(y1, y2)), Whole(x1)))
        ELSE Less(Whole(0), num) \/ (num = Whole(0) /\ Less(qlon, Whole(x1)))

\* (y1 > lat) != (y2 > lat).
Straddles(qlat, y1, y2) == Less(qlat, Whole(y1)) # Less(qlat, Whole(y2))

(***************************************************************************)
(* The condition of the toggle, line 81.  Python's "and" evaluates the     *)
(* division only when the latitudes straddle: CrossingRaises is the        *)
(* ZeroDivisionError of that division, CrossingTest the condition's value  *)
(* when it does not raise.                                                 *)
(***************************************************************************)
CrossingRaises(qlat, y1, y2) ==
    Straddles(qlat, y1, y2) /\ DenominatorIsZero(y1, y2)

CrossingTest(qlon, qlat, x1, y1, x2, y2) ==
    Straddles(qlat, y1, y2) /\ LonBeforeCrossing(qlon, qlat, x1, y1, x2, y2)

Toggle_SetTrue(inside) == TRUE

Toggle(inside) == ~inside

(***************************************************************************)
(* The edge-inclusive test, lines 84-86.                                   *)
(***************************************************************************)
\* min(a, b) - 1e-12 <= q <= max(a, b) + 1e-12: the bounds are the doubles
\* nearest to the integer moved by 1e-12.
Between(q, a, b) ==
    /\ ~Less(q, Dbl(Min(a, b), -RoundedTol(Ulp(Min(a, b), -1))))
    /\ ~Less(Dbl(Max(a, b), RoundedTol(Ulp(Max(a, b), 1))), q)

WithinBBox(qlon, qlat, x1, y1, x2, y2) ==
    Between(qlon, x1, x2) /\ Between(qlat, y1, y2)

\* (y2 - y1) * (lon - x1) - (x2 - x1) * (lat - y1), line 86.
CrossProduct(qlon, qlat, x1, y1, x2, y2) ==
    FSub(FMul(Whole(y2 - y1), FSub(qlon, Whole(x1))),
         FMul(Whole(x2 - x1), FSub(qlat, Whole(y1))))

\* abs(...) <= 1e-12.
Colinear(qlon, qlat, x1, y1, x2, y2) ==
    \E c \in {CrossProduct(qlon, qlat, x1, y1, x2, y2)} :
        c.int = 0 /\ Abs(c.frac) <= TolUnits

OnEdgeTest_StrictBBox(qlon, qlat, x1, y1, x2, y2) ==
    /\ Less(Whole(Min(x1, x2)), qlon) /\ Less(qlon, Whole(Max(x1, x2)))
    /\ Less(Whole(Min(y1, y2)), qlat) /\ Less(qlat, Whole(Max(y1, y2)))
    /\ Colinear(qlon, qlat, x1, y1, x2, y2)

OnEdgeTest(qlon, qlat, x1, y1, x2, y2) ==
    WithinBBox(qlon, qlat, x1, y1, x2, y2) /\ Colinear(qlon, qlat, x1, y1, x2, y2)

(***************************************************************************)
(* ring[(i + 1) % n], as a position of the sequence (i is 0-based).        *)
(***************************************************************************)
NextIndex_NoWrap(i, n) == Min(i + 1, n - 1) + 1

NextIndex(i, n) == ((i + 1) % n) + 1

(***************************************************************************)
(* The loop of lines 77-88 from iteration i on, with the parity so far.    *)
(***************************************************************************)
RECURSIVE RingLoop(_, _, _, _, _)
RingLoop(qlon, qlat, r, i, inside) ==
    IF i >= Len(r) THEN Return(inside)
    ELSE LET p1 == r[i + 1]
             p2 == r[NextIndex(i, Len(r))]
             x1 == p1[1]
             y1 == p1[2]
             x2 == p2[1]
             y2 == p2[2]
         IN  IF CrossingRaises(qlat, y1, y2) THEN Raise("ZeroDivisionError")
             ELSE IF OnEdgeTest(qlon, qlat, x1, y1, x2, y2) THEN Return(TRUE)
             ELSE RingLoop(qlon, qlat, r, i + 1,
                           IF CrossingTest(qlon, qlat, x1, y1, x2, y2)
                           THEN Toggle(inside) ELSE inside)

_point_in_ring_NoLengthGuard(qlon, qlat, r) == RingLoop(qlon, qlat, r, 0, FALSE)

_point_in_ring(qlon, qlat, r) ==
    IF Len(r) < 3 THEN Return(FALSE)
    ELSE RingLoop(qlon, qlat, r, 0, FALSE)

(***************************************************************************)
(* geom.get("coordinates") or [], lines 95 and 105: a missing key, null    *)
(* and the empty list all give the empty list.                             *)
(***************************************************************************)
ListValue(items) == [kind |-> "list", items |-> items]
NumberValue == [kind |-> "number", items |-> <<>>]
NoneValue == [kind |-> "none", items |-> <<>>]

CoordinatesOrEmpty_DefaultOnly(g) ==
    IF g.ctag = "missing" THEN ListValue(<<>>)
    ELSE IF g.ctag = "null" THEN NoneValue
    ELSE IF g.ctag = "list" THEN ListValue(g.coordinates)
    ELSE NumberValue

CoordinatesOrEmpty(g) ==
    IF g.ctag \in {"missing", "null"} THEN ListValue(<<>>)
    ELSE IF g.ctag = "list" THEN ListValue(g.coordinates)
    ELSE NumberValue

\* Python's truth value of such a value.
Truthy(c) == c.kind = "number" \/ (c.kind = "list" /\ Len(c.items) > 0)

\* not geom or "type" not in geom, line 92: None and the empty dict are falsy.
NotGeomOrNoType(g) ==
    g.isNone \/ (~g.hasType /\ g.ctag = "missing") \/ ~g.hasType

(***************************************************************************)
(* for hole in rings[1:], lines 100-103, from position j (1-based) on.     *)
(***************************************************************************)
RECURSIVE HoleLoop(_, _, _, _)
HoleLoop_IgnoreHoles(qlon, qlat, rings, j) == Return(TRUE)

HoleLoop(qlon, qlat, rings, j) ==
    IF j > Len(rings) THEN Return(TRUE)
    ELSE LET hole == _point_in_ring(qlon, qlat, rings[j])
         IN  IF hole.exc # "none" THEN hole
             ELSE IF hole.val THEN Return(FALSE)
             ELSE HoleLoop(qlon, qlat, rings, j + 1)

\* The "Polygon" branch, lines 95-103.
PolygonBranch(g, qlon, qlat) ==
    LET rings == CoordinatesOrEmpty(g)
    IN  IF ~Truthy(rings) THEN Return(FALSE)
        ELSE IF rings.kind # "list" THEN Raise("TypeError")
        ELSE LET outer == _point_in_ring(qlon, qlat, rings.items[1])
             IN  IF outer.exc # "none" THEN outer
                 ELSE IF ~outer.val THEN Return(FALSE)
                 ELSE HoleLoop(qlon, qlat, rings.items, 2)

(***************************************************************************)
(* any(_point_in_ring(lon, lat, h) for h in poly[1:]), line 106.           *)
(***************************************************************************)
RECURSIVE AnyHole(_, _, _, _)
AnyHole(qlon, qlat, poly, j) ==
    IF j > Len(poly) THEN Return(FALSE)
    ELSE LET hole == _point_in_ring(qlon, qlat, poly[j])
         IN  IF hole.exc # "none" THEN hole
             ELSE IF hole.val THEN Return(TRUE)
             ELSE AnyHole(qlon, qlat, poly, j + 1)

\* The condition of line 106, with the short circuit of "and".
MemberTest_OuterOnly(qlon, qlat, poly) ==
    IF Len(poly) = 0 THEN Return(FALSE)
    ELSE _point_in_ring(qlon, qlat, poly[1])

MemberTest(qlon, qlat, poly) ==
    IF Len(poly) = 0 THEN Return(FALSE)
    ELSE LET outer == _point_in_ring(qlon, qlat, poly[1])
         IN  IF outer.exc # "none" THEN outer
             ELSE IF ~outer.val THEN Return(FALSE)
             ELSE LET holes == AnyHole(qlon, qlat, poly, 2)
                  IN  IF holes.exc # "none" THEN holes
                      ELSE Return(~holes.val)

\* for poly in ..., lines 105-108, from member m (1-based) on.
RECURSIVE PolyLoop(_, _, _, _)
PolyLoop(qlon, qlat, polys, m) ==
    IF m > Len(polys) THEN Return(FALSE)
    ELSE LET member == MemberTest(qlon, qlat, polys[m])
         IN  IF member.exc # "none" THEN member
             ELSE IF member.val THEN Return(TRUE)
             ELSE PolyLoop(qlon, qlat, polys, m + 1)

\* The "MultiPolygon" branch, lines 105-108: iterating a non-list raises.
MultiPolygonBranch(g, qlon, qlat) ==
    LET polys == CoordinatesOrEmpty(g)
    IN  IF polys.kind # "list" THEN Raise("TypeError")
        ELSE PolyLoop(qlon, qlat, polys.items, 1)

geojson_contains_point(g, qlon, qlat) ==
    IF NotGeomOrNoType(g) THEN Return(FALSE)
    ELSE IF g.type = "Polygon" THEN PolygonBranch(g, qlon, qlat)
    ELSE IF g.type = "MultiPolygon" THEN MultiPolygonBranch(g, qlon, qlat)
    ELSE Return(FALSE)

(***************************************************************************)
(* Bounds of the geometry inputs.  The rings are the axis-aligned squares  *)
(* with corners (a, a) and (b, b) on the grid, in the vertex order of the  *)
(* square [[0,0],[0,10],[10,10],[10,0]], and one two-point ring.           *)
(***************************************************************************)
GeomGridMax == 3
MaxRings == 2
MaxPolys == 2

GeomCoord == 0..GeomGridMax
Square(a, b) == <<(<<a, a>>), (<<a, b>>), (<<b, b>>), (<<b, a>>)>>
TwoPointRing == <<(<<0, 0>>), (<<GeomGridMax, GeomGridMax>>)>>
RingLists ==
    UNION {[1..n -> {Square(c[1], c[2]) :
                         c \in {d \in GeomCoord \X GeomCoord : d[1] < d[2]}}
                        \cup {TwoPointRing}] : n \in 0..MaxRings}

PolygonGeoms == {Geometry("Polygon", rl) : rl \in RingLists}
MultiPolygonGeoms ==
    {Geometry("MultiPolygon", pl) :
         pl \in UNION {[1..m -> RingLists] : m \in 0..MaxPolys}}
OtherGeoms ==
    {NoneGeometry, EmptyDict,
     [isNone |-> FALSE, hasType |-> FALSE, type |-> "", ctag |-> "list",
      coordinates |-> <<>>],
     Geometry("Point", <<>>),
     GeometryWithout("Point", "number"),
     Geometry("Polygon", <<>>)}
        \cup {Geometry("MultiPolygon", [k \in 1..m |-> <<>>]) : m \in 0..MaxPolys}
        \cup {GeometryWithout(t, tag) : t \in {"Polygon", "MultiPolygon"},
                                        tag \in {"missing", "null", "number"}}

(***************************************************************************)
(* The response of the feature service to _fetch_feature_containing_point. *)
(* A feature is a dict with a geometry (None when the key is missing or    *)
(* null), or not a dict at all (JSON null).  The body is invalid JSON, a   *)
(* JSON array, or an object whose "features" is missing, null or a list.   *)
(***************************************************************************)
MaxFeatures == 3

\* The "properties" of a feature: the key is missing, its value is null, or
\* it is a dict; a name of "" is a key that is missing or empty.
Properties(ptag, water_body_name, operational_catchment, name) ==
    [ptag |-> ptag, water_body_name |-> water_body_name,
     operational_catchment |-> operational_catchment, name |-> name]
NoProperties == Properties("missing", "", "", "")

FeatureWith(g, props) == [isDict |-> TRUE, geometry |-> g, properties |-> props]
Feature(g) == FeatureWith(g, NoProperties)
NullFeature ==
    [isDict |-> FALSE, geometry |-> NoneGeometry, properties |-> NoProperties]

HoledSquare ==
    Geometry("Polygon", <<Square(0, GeomGridMax), Square(1, GeomGridMax - 1)>>)
CornerSquare == Geometry("Polygon", <<Square(0, 1)>>)
TwoSquares ==
    Geometry("MultiPolygon",
             <<(<<Square(0, 1)>>), (<<Square(GeomGridMax - 1, GeomGridMax)>>)>>)

Features ==
    {Feature(HoledSquare), Feature(CornerSquare), Feature(TwoSquares),
     Feature(NoneGeometry), Feature(GeometryWithout("Polygon", "number")),
     NullFeature}

Body(kind, tag, items) == [kind |-> kind, ftag |-> tag, features |-> items]
Bodies ==
    {Body("invalid", "missing", <<>>), Body("array", "missing", <<>>),
     Body("object", "missing", <<>>), Body("object", "null", <<>>)}
        \cup {Body("object", "list", fl) :
                  fl \in UNION {[1..n -> Features] : n \in 0..MaxFeatures}}

HTTP_OK == 200
Statuses == {HTTP_OK, 404}
GeoJsonTypes == {"application/geo+json", "application/geo+json; charset=utf-8"}

Response(raises, status, ctype, body) ==
    [raises |-> raises, status |-> status, ctype |-> ctype, body |-> body]
NoResponse == Response(TRUE, 0, "", Body("invalid", "missing", <<>>))

\* The body of a refused response is never read: one body stands for all.
Responses ==
    {NoResponse}
        \cup {Response(FALSE, HTTP_OK, ct, b) : ct \in GeoJsonTypes, b \in Bodies}
        \cup {Response(FALSE, st, ct,
                       Body("object", "list", <<Feature(HoledSquare)>>)) :
                  st \in Statuses, ct \in GeoJsonTypes \cup {"application/json", ""}}

NoneFound == [isNone |-> TRUE, pos |-> 0, feature |-> NullFeature]
FoundAt(i, f) == [isNone |-> FALSE, pos |-> i, feature |-> f]

\* gj.get("features") or [], line 227.
FeaturesOrEmpty(body) == IF body.ftag = "list" THEN body.features ELSE <<>>

\* Python's truth value of feat.get("geometry"): None and {} are falsy.
GeomTruthy(g) == ~g.isNone /\ (g.hasType \/ g.ctag # "missing")

\* Where an exception raised inside the try block goes: except Exception: pass.
OnException_Propagate == "fetch_raised"

OnException == "fetch_except"

(***************************************************************************)
(* The submitted lookup, lines 329-503.  A text is a sequence of           *)
(* characters, so that strip(), replace(" ", "") and upper() do what they  *)
(* do in Python.                                                           *)
(***************************************************************************)
MaxPad == 1

\* What the postcode field holds between its leading and trailing spaces:
\* nothing, a text the pattern of line 63 rejects and one it accepts.
Pad(n) == [k \in 1..n |-> " "]
Texts ==
    {Pad(n) \o c \o Pad(n) :
         n \in 0..MaxPad,
         c \in {<<>>, <<"a", "1", " ", "1", "a">>, <<"a", "1", "1", "a", "a">>}}
AddressTexts == {<<" ">>, <<" ", "a">>}

IsSpace(c) == c = " "
IsDigit(c) == c \in {"0", "1"}
IsLetter(c) == c \in {"A", "a", "G", "g", "I", "i", "R", "r"}
UpperChar(c) ==
    CASE c = "a" -> "A" [] c = "g" -> "G" [] c = "i" -> "I" [] c = "r" -> "R"
      [] OTHER -> c

RECURSIVE LStrip(_)
LStrip(s) == IF Len(s) > 0 /\ IsSpace(s[1]) THEN LStrip(Tail(s)) ELSE s
RECURSIVE RStrip(_)
RStrip(s) ==
    IF Len(s) > 0 /\ IsSpace(s[Len(s)])
    THEN RStrip(SubSeq(s, 1, Len(s) - 1)) ELSE s
\* str.strip()
Strip(s) == RStrip(LStrip(s))
\* str.upper()
Upper(s) == [k \in 1..Len(s) |-> UpperChar(s[k])]
\* str.replace(" ", "")
RECURSIVE RemoveSpaces(_)
RemoveSpaces(s) ==
    IF Len(s) = 0 THEN <<>>
    ELSE IF s[1] = " " THEN RemoveSpaces(Tail(s))
    ELSE <<s[1]>> \o RemoveSpaces(Tail(s))

\* POSTCODE_RX, line 63, case-insensitive: GIR\s?0AA
MatchesGIR(s) ==
    \E c \in 0..1 :
        /\ Len(s) = 6 + c
        /\ Upper(SubSeq(s, 1, 3)) = <<"G", "I", "R">>
        /\ c = 1 => IsSpace(s[4])
        /\ Upper(SubSeq(s, 4 + c, 6 + c)) = <<"0", "A", "A">>
\* POSTCODE_RX, line 63: [A-Z]{1,2}\d[A-Z\d]?\s?\d[A-Z]{2}
MatchesOutwardInward(s) ==
    \E a \in 1..2, b \in 0..1, c \in 0..1 :
        /\ Len(s) = a + 1 + b + c + 3
        /\ \A k \in 1..a : IsLetter(s[k])
        /\ IsDigit(s[a + 1])
        /\ b = 1 => IsLetter(s[a + 2]) \/ IsDigit(s[a + 2])
        /\ c = 1 => IsSpace(s[a + 1 + b + 1])
        /\ IsDigit(s[a + 1 + b + c + 1])
        /\ IsLetter(s[a + 1 + b + c + 2])
        /\ IsLetter(s[a + 1 + b + c + 3])
looks_like_uk_postcode(s) ==
    LET t == Strip(s) IN MatchesGIR(t) \/ MatchesOutwardInward(t)

\* An exception with its message, and the value of a or b or ... or default.
Msg(text, status, detail) == [text |-> text, status |-> status, detail |-> detail]
RaiseMsg(e, m) == [exc |-> e, val |-> m]
RECURSIVE FirstTruthy(_, _)
FirstTruthy(names, default) ==
    IF Len(names) = 0 THEN default
    ELSE IF names[1] # "" THEN names[1]
    ELSE FirstTruthy(Tail(names), default)

(***************************************************************************)
(* The replies of the services.  raises: requests.get raised; json: the    *)
(* body is invalid JSON, a JSON list or a JSON object.                     *)
(***************************************************************************)
\* <<lat, lon>>: points of the grid the catchment geometries are drawn on.
CoordPairs == {<<1, 0>>, <<2, 2>>}
AreaNames == {<<"", "", "">>, <<"", "Kent", "Hythe">>}

PostcodeResult(hasLat, hasLon, c, areas, pcd) ==
    [hasLat |-> hasLat, hasLon |-> hasLon, lat |-> c[1], lon |-> c[2],
     areas |-> areas, postcode |-> pcd]
\* postcode: the text under the key "postcode", <<>> when there is none.
ServicePostcode == <<"A", "1", " ", "1", "A", "A">>
EmptyResult == PostcodeResult(FALSE, FALSE, <<0, 0>>, <<"", "", "">>, <<>>)
\* rkind: the "result" key is missing, null or an object.
PostcodeReply(raises, status, json, err, rkind, res) ==
    [raises |-> raises, status |-> status, json |-> json, error |-> err,
     rkind |-> rkind, result |-> res]
PostcodeReplies ==
    {PostcodeReply(TRUE, 0, "invalid", "", "missing", EmptyResult)}
        \cup {PostcodeReply(FALSE, 404, j, e, "missing", EmptyResult) :
                  j \in {"invalid", "list", "object"},
                  e \in {"", "Invalid postcode"}}
        \cup {PostcodeReply(FALSE, HTTP_OK, j, "", "missing", EmptyResult) :
                  j \in {"invalid", "list"}}
        \cup {PostcodeReply(FALSE, HTTP_OK, "object", "", k, EmptyResult) :
                  k \in {"missing", "null", "object"}}
        \cup {PostcodeReply(FALSE, HTTP_OK, "object", "", "object",
                            PostcodeResult(a, b, c, n, p)) :
                  a \in BOOLEAN, b \in BOOLEAN, c \in CoordPairs,
                  n \in AreaNames, p \in {<<>>, ServicePostcode}}

\* get_postcode_info(postcode), lines 114-131, on the reply r of line 116.
get_postcode_info(postcode, r) ==
    LET pcd == Upper(RemoveSpaces(postcode))
        err == IF r.json = "object" THEN r.error ELSE ""
        data == IF r.rkind = "object" THEN r.result ELSE EmptyResult
    IN  IF r.raises THEN RaiseMsg("ConnectionError", Msg("request failed", 0, ""))
        ELSE IF r.status # HTTP_OK
        THEN RaiseMsg("RuntimeError",
                      Msg("Postcode error", r.status,
                          IF err # "" THEN err ELSE "unknown error"))
        ELSE IF r.json = "invalid"
        THEN RaiseMsg("JSONDecodeError", Msg("invalid json", 0, ""))
        ELSE IF r.json = "list"
        THEN RaiseMsg("AttributeError", Msg("list has no get", 0, ""))
        ELSE IF ~data.hasLat \/ ~data.hasLon
        THEN RaiseMsg("RuntimeError",
                      Msg("No coordinates returned for this postcode.", 0, ""))
        ELSE Return([lat |-> data.lat, lon |-> data.lon,
                     lpa |-> FirstTruthy(data.areas, "Unknown"),
                     postcode |-> IF data.postcode # <<>> THEN data.postcode
                                  ELSE pcd])

GeocodeReply(raises, status, json, hasLat, hasLon, c) ==
    [raises |-> raises, status |-> status, json |-> json, hasLat |-> hasLat,
     hasLon |-> hasLon, lat |-> c[1], lon |-> c[2]]
\* json: invalid JSON, an empty list, a non-empty object, or a list whose
\* first element is an object.
GeocodeReplies ==
    {GeocodeReply(TRUE, 0, "invalid", FALSE, FALSE, <<0, 0>>)}
        \cup {GeocodeReply(FALSE, st, j, FALSE, FALSE, <<0, 0>>) :
                  st \in Statuses, j \in {"invalid", "empty_list", "object"}}
        \cup {GeocodeReply(FALSE, st, "list", a, b, c) :
                  st \in Statuses, a \in BOOLEAN, b \in BOOLEAN,
                  c \in CoordPairs}

\* geocode_address_nominatim(address), lines 133-146, on the reply r of
\* line 136.
geocode_address_nominatim(address, r) ==
    IF r.raises THEN RaiseMsg("ConnectionError", Msg("request failed", 0, ""))
    ELSE IF r.status # HTTP_OK
    THEN RaiseMsg("RuntimeError", Msg("Nominatim error HTTP", r.status, ""))
    ELSE IF r.json = "invalid"
    THEN RaiseMsg("JSONDecodeError", Msg("invalid json", 0, ""))
    ELSE IF r.json = "empty_list"
    THEN RaiseMsg("RuntimeError",
                  Msg("No geocoding result for that address.", 0, ""))
    ELSE IF r.json = "object"
    THEN RaiseMsg("KeyError", Msg("0", 0, ""))
    ELSE IF ~r.hasLat \/ ~r.hasLon
    THEN RaiseMsg("RuntimeError",
                  Msg("Geocoder did not return coordinates.", 0, ""))
    ELSE Return([lat |-> r.lat, lon |-> r.lon])

ReverseReply(raises, json, rkind, areas, pcd) ==
    [raises |-> raises, json |-> json, rkind |-> rkind, areas |-> areas,
     postcode |-> pcd]
\* rkind: "result" is missing, null, an empty list, or a list whose first
\* element is an object.
ReverseReplies ==
    {ReverseReply(TRUE, "invalid", "missing", <<"", "", "">>, <<>>)}
        \cup {ReverseReply(FALSE, j, "missing", <<"", "", "">>, <<>>) :
                  j \in {"invalid", "list"}}
        \cup {ReverseReply(FALSE, "object", k, <<"", "", "">>, <<>>) :
                  k \in {"missing", "null", "empty_list"}}
        \cup {ReverseReply(FALSE, "object", "list", n, p) :
                  n \in AreaNames, p \in {<<>>, ServicePostcode}}

\* get_nearest_postcode_lpa_from_coords(lat, lon), lines 149-158: no status
\* test; the postcode <<>> stands for None.
get_nearest_postcode_lpa_from_coords(qlat, qlon, r) ==
    IF r.raises THEN RaiseMsg("ConnectionError", Msg("request failed", 0, ""))
    ELSE IF r.json = "invalid"
    THEN RaiseMsg("JSONDecodeError", Msg("invalid json", 0, ""))
    ELSE IF r.json = "list"
    THEN RaiseMsg("AttributeError", Msg("list has no get", 0, ""))
    ELSE IF r.rkind # "list"
    THEN Return([postcode |-> <<>>, lpa |-> "Unknown"])
    ELSE Return([postcode |-> r.postcode,
                 lpa |-> FirstTruthy(r.areas, "Unknown")])

\* The "geometry" of an ArcGIS feature: missing or null, a dict without
\* "rings", or a dict with a list of n rings.
ArcgisGeometry(gkind, n) == [gkind |-> gkind, nrings |-> n]
NoArcgisGeometry == ArcgisGeometry("missing", 0)
MaxArcgisRings == 2

\* The reply of an ArcGIS layer: fkind tells whether "features" is empty,
\* or what its first feature holds under "attributes".
ArcgisReply(raises, json, fkind, name, g) ==
    [raises |-> raises, json |-> json, fkind |-> fkind, name |-> name,
     geometry |-> g]
ArcgisReplies ==
    {ArcgisReply(TRUE, "invalid", "none", "", NoArcgisGeometry)}
        \cup {ArcgisReply(FALSE, j, "none", "", NoArcgisGeometry) :
                  j \in {"invalid", "list"}}
        \cup {ArcgisReply(FALSE, "object", "none", "", NoArcgisGeometry)}
        \cup {ArcgisReply(FALSE, "object", "no_attributes", "",
                          ArcgisGeometry("no_rings", 0)),
              ArcgisReply(FALSE, "object", "null_attributes", "",
                          NoArcgisGeometry),
              ArcgisReply(FALSE, "object", "attributes", "",
                          ArcgisGeometry("rings", 0))}
        \cup {ArcgisReply(FALSE, "object", "attributes", "Area",
                          ArcgisGeometry("rings", n)) : n \in 1..MaxArcgisRings}

\* _arcgis_point_in_polygon, lines 160-176: the first feature, {} if none.
_arcgis_point_in_polygon(qlat, qlon, r) ==
    IF r.raises THEN RaiseMsg("ConnectionError", Msg("request failed", 0, ""))
    ELSE IF r.json = "invalid"
    THEN RaiseMsg("JSONDecodeError", Msg("invalid json", 0, ""))
    ELSE IF r.json = "list"
    THEN RaiseMsg("AttributeError", Msg("list has no get", 0, ""))
    ELSE Return([fkind |-> r.fkind, name |-> r.name, geometry |-> r.geometry])

\* _arcgis_polygon_to_geojson, lines 178-188: the type of the GeoJSON
\* geometry made of the rings, "None" when there is none to make.
_arcgis_polygon_to_geojson(g) ==
    IF g.gkind # "rings" THEN "None"
    ELSE IF g.nrings = 0 THEN "None"
    ELSE IF g.nrings = 1 THEN "Polygon"
    ELSE "MultiPolygon"

\* (feat or {}).get("geometry"), lines 400 and 413.
GeometryOf(feat) ==
    IF feat.fkind \in {"none", "unbound"} THEN NoArcgisGeometry
    ELSE feat.geometry

\* get_nca_name_from_feature / get_lpa_name_from_feature, lines 199-203:
\* (feat or {}).get("attributes", {}).get(name); "" stands for None.
get_name_from_feature(feat) ==
    IF feat.fkind = "null_attributes"
    THEN RaiseMsg("AttributeError", Msg("NoneType has no get", 0, ""))
    ELSE IF feat.fkind = "attributes" THEN Return(feat.name)
    ELSE Return("")

(***************************************************************************)
(* The state of one submitted run: the two form fields, the variables of   *)
(* lines 330-334, what was written to the page, the calls made to the      *)
(* services, and the exception on its way to the handlers of lines         *)
(* 500-503.  located tells that lat and lon are not None.                  *)
(***************************************************************************)
\* _fetch_feature_containing_point, lines 212-233, as the function the
\* map section calls: the first feature whose geometry contains the point,
\* None when the request, the response or a feature fails.
RECURSIVE FetchLoop(_, _, _, _)
FetchLoop(feats, i, qlon, qlat) ==
    IF i > Len(feats) THEN NoneFound
    ELSE IF ~feats[i].isDict THEN NoneFound
    ELSE IF ~GeomTruthy(feats[i].geometry) THEN FetchLoop(feats, i + 1, qlon, qlat)
    ELSE LET inside == geojson_contains_point(feats[i].geometry, qlon, qlat)
         IN  IF inside.exc # "none" THEN NoneFound
             ELSE IF inside.val THEN FoundAt(i, feats[i])
             ELSE FetchLoop(feats, i + 1, qlon, qlat)

_fetch_feature_containing_point(r, qlat, qlon) ==
    IF r.raises THEN NoneFound
    ELSE IF ~(r.status = HTTP_OK /\ r.ctype \in GeoJsonTypes) THEN NoneFound
    ELSE IF r.body.kind # "object" THEN NoneFound
    ELSE FetchLoop(FeaturesOrEmpty(r.body), 1, qlon, qlat)

\* get_water_body_catchment / get_operational_catchment, lines 234-240.
get_catchment(qlat, qlon, r) == _fetch_feature_containing_point(r, qlat, qlon)

\* The replies of the EA service to the map section: a failed request, a
\* rejected response, a body that does not parse, and collections of at
\* most MaxOverlayFeatures features.
MaxOverlayFeatures == 1
\* The features of a reply: the holed square with its properties missing,
\* null or a dict; a MultiPolygon whose first part is empty and whose second
\* contains every point of the grid; a feature without geometry; null.
OverlayFeatures ==
    {FeatureWith(HoledSquare, p) :
         p \in {NoProperties, Properties("null", "", "", ""),
                Properties("dict", "Wb", "", "Nm")}}
        \cup {Feature(Geometry("MultiPolygon",
                               <<(<<>>), (<<Square(0, GeomGridMax)>>)>>)),
              Feature(NoneGeometry), NullFeature}
OverlayReplies ==
    {NoResponse}
        \cup {Response(FALSE, HTTP_OK, "application/geo+json", b) :
                  b \in {Body("invalid", "missing", <<>>),
                         Body("array", "missing", <<>>),
                         Body("object", "missing", <<>>)}}
        \cup {Response(FALSE, HTTP_OK, "application/geo+json",
                       Body("object", "list", fl)) :
                  fl \in UNION {[1..n -> OverlayFeatures] :
                                   n \in 0..MaxOverlayFeatures}}
        \cup {Response(FALSE, st, ct,
                       Body("object", "list", <<Feature(HoledSquare)>>)) :
                  st \in Statuses, ct \in {"application/json", ""}}

NoException == RaiseMsg("none", Msg("", 0, ""))
\* nca_feat, lpa_feat before lines 360-361 bind them.
NoFeature == [fkind |-> "unbound", name |-> "", geometry |-> NoArcgisGeometry]
\* The ticks of the checkboxes of lines 303, 314 and 322.
Boxes(show_wb, show_oper, hide_other_layers) ==
    [show_wb |-> show_wb, show_oper |-> show_oper,
     hide_other_layers |-> hide_other_layers]
BoxTicks == {Boxes(w, o, h) : w \in BOOLEAN, o \in BOOLEAN, h \in BOOLEAN}
\* layers: the names of the GeoJSON layers added to the map so far;
\* wb_feat, oc_feat: what lines 427 and 446 bound, None before they run;
\* wb_name, oc_name: what lines 431 and 450 bound, "" before they run.
RunWith(postcode_in, address_in, boxes) ==
    [postcode_in |-> postcode_in, address_in |-> address_in, boxes |-> boxes,
     layers |-> <<>>, wb_feat |-> NoneFound, oc_feat |-> NoneFound,
     wb_name |-> "", oc_name |-> "",
     notes |-> <<>>, located |-> FALSE, lat |-> 0, lon |-> 0,
     lpa_text |-> "Unknown", shown_pc |-> <<>>,
     nca_feat |-> NoFeature, lpa_feat |-> NoFeature,
     nca_name |-> "", lpa_name |-> "",
     page |-> <<>>, calls |-> <<>>, exc |-> NoException]
NoRun == RunWith(<<>>, <<>>, Boxes(FALSE, FALSE, FALSE))

\* A call to a service: its text argument or its coordinates, the exception
\* it raised ("none" when it returned), and the coordinates <<lat, lon>> it
\* returned, if it returns coordinates.
Call(fn, text, qlat, qlon, out) ==
    [fn |-> fn, text |-> text, lat |-> qlat, lon |-> qlon, exc |-> out.exc,
     got |-> IF out.exc = "none"
                 /\ fn \in {"get_postcode_info", "geocode_address_nominatim"}
             THEN <<out.val.lat, out.val.lon>> ELSE <<>>]
Shown(kind, what, text) == [kind |-> kind, what |-> what, text |-> text]

(***************************************************************************)
(* The ring specifications: a ring is drawn, and _point_in_ring is called  *)
(* on it with a query point.                                               *)
(***************************************************************************)
\* The query coordinates: a vertex coordinate, moved by a few units of 2^-48
\* or by about the tolerance, where that is a double.
QueryCoord ==
    {d \in {Dbl(c, s * f) : c \in RingCoord, f \in {0, 2, 6, 280, 282},
                            s \in {1, -1}} :
        Fl(d) = d}

InitRing ==
    /\ pc = "ring_start"
    /\ ring \in Rings
    /\ geom = NoneGeometry
    /\ lon = Whole(0)
    /\ lat = Whole(0)
    /\ ret = NoRet
    /\ resp = NoResponse
    /\ idx = 0
    /\ found = NoneFound
    /\ run = NoRun

\* The rings of the data model: at least 3 points.
InitRing3 == InitRing /\ Len(ring) >= 3

CallPointInRing ==
    /\ pc = "ring_start"
    /\ \E qlon \in QueryCoord, qlat \in QueryCoord :
           /\ lon' = qlon
           /\ lat' = qlat
           /\ ret' = _point_in_ring(qlon, qlat, ring)
    /\ pc' = "ring_done"
    /\ UNCHANGED <<ring, geom, resp, idx, found, run>>

NextRing == CallPointInRing

SpecRing == InitRing /\ [][NextRing]_vars
SpecRing3 == InitRing3 /\ [][NextRing]_vars

(***************************************************************************)
(* The geometry specifications: a geometry is drawn, and                   *)
(* geojson_contains_point is called on it with a query point.              *)
(***************************************************************************)
InitGeomIn(S) ==
    /\ pc = "geom_start"
    /\ geom \in S
    /\ ring = <<>>
    /\ lon = Whole(0)
    /\ lat = Whole(0)
    /\ ret = NoRet
    /\ resp = NoResponse
    /\ idx = 0
    /\ found = NoneFound
    /\ run = NoRun

InitPolygon == InitGeomIn(PolygonGeoms)
InitMultiPolygon == InitGeomIn(MultiPolygonGeoms)
InitOther == InitGeomIn(OtherGeoms)
InitGeom == InitPolygon \/ InitMultiPolygon \/ InitOther

CallContainsPoint ==
    /\ pc = "geom_start"
    /\ \E qlon \in GeomCoord, qlat \in GeomCoord :
           /\ lon' = Whole(qlon)
           /\ lat' = Whole(qlat)
           /\ ret' = geojson_contains_point(geom, Whole(qlon), Whole(qlat))
    /\ pc' = "geom_done"
    /\ UNCHANGED <<ring, geom, resp, idx, found, run>>

NextGeom == CallContainsPoint

SpecPolygon == InitPolygon /\ [][NextGeom]_vars
SpecMultiPolygon == InitMultiPolygon /\ [][NextGeom]_vars
SpecOther == InitOther /\ [][NextGeom]_vars
SpecGeom == InitGeom /\ [][NextGeom]_vars

(***************************************************************************)
(* _fetch_feature_containing_point(collection_url, lat, lon), lines        *)
(* 212-233, one step per statement, and the caller's use of its result     *)
(* for the water body overlay, lines 427-430.                              *)
(***************************************************************************)
InitFetch ==
    /\ pc = "fetch_start"
    /\ lon \in {Whole(c) : c \in GeomCoord}
    /\ lat \in {Whole(c) : c \in GeomCoord}
    /\ ring = <<>>
    /\ geom = NoneGeometry
    /\ ret = NoRet
    /\ resp = NoResponse
    /\ idx = 0
    /\ found = NoneFound
    /\ run = NoRun

\* r = requests.get(...), line 224: it raises, or the service answers.
RequestGet ==
    /\ pc = "fetch_start"
    /\ \E r \in Responses :
           /\ resp' = r
           /\ pc' = IF r.raises THEN OnException ELSE "fetch_response"
    /\ UNCHANGED <<lon, lat, ring, geom, ret, idx, found, run>>

\* The condition of line 225.
CheckResponse ==
    /\ pc = "fetch_response"
    /\ pc' = IF resp.status = HTTP_OK /\ resp.ctype \in GeoJsonTypes
             THEN "fetch_parse" ELSE "fetch_return_none"
    /\ UNCHANGED <<lon, lat, ring, geom, ret, resp, idx, found, run>>

\* gj = r.json() and gj.get("features") or [], lines 226-227: invalid JSON
\* raises, and so does .get on a JSON array.
ParseJson ==
    /\ pc = "fetch_parse"
    /\ IF resp.body.kind # "object"
       THEN pc' = OnException /\ idx' = idx
       ELSE pc' = "fetch_loop" /\ idx' = 1
    /\ UNCHANGED <<lon, lat, ring, geom, ret, resp, found, run>>

\* One iteration of the loop of lines 227-230, or its end.
LoopStep ==
    /\ pc = "fetch_loop"
    /\ LET feats == FeaturesOrEmpty(resp.body)
       IN  IF idx > Len(feats)
           THEN pc' = "fetch_return_none" /\ UNCHANGED <<idx, found>>
           ELSE IF ~feats[idx].isDict
           THEN pc' = OnException /\ UNCHANGED <<idx, found>>
           ELSE IF ~GeomTruthy(feats[idx].geometry)
           THEN pc' = "fetch_loop" /\ idx' = idx + 1 /\ found' = found
           ELSE LET inside ==
                        geojson_contains_point(feats[idx].geometry, lon, lat)
                IN  IF inside.exc # "none"
                    THEN pc' = OnException /\ UNCHANGED <<idx, found>>
                    ELSE IF inside.val
                    THEN /\ pc' = "fetch_done"
                         /\ found' = FoundAt(idx, feats[idx])
                         /\ idx' = idx
                    ELSE pc' = "fetch_loop" /\ idx' = idx + 1 /\ found' = found
    /\ UNCHANGED <<lon, lat, ring, geom, ret, resp, run>>

\* except Exception: pass, lines 231-232.
ExceptPass ==
    /\ pc = "fetch_except"
    /\ pc' = "fetch_return_none"
    /\ UNCHANGED <<lon, lat, ring, geom, ret, resp, idx, found, run>>

\* return None, line 233.
ReturnNone ==
    /\ pc = "fetch_return_none"
    /\ found' = NoneFound
    /\ pc' = "fetch_done"
    /\ UNCHANGED <<lon, lat, ring, geom, ret, resp, idx, run>>

\* The caller, lines 427-430: the overlay is drawn when the feature is not
\* None and its geometry passes geojson_contains_point again.
UseFeature ==
    /\ pc = "fetch_done"
    /\ LET g == found.feature.geometry
           again == geojson_contains_point(g, lon, lat)
       IN  IF found.isNone THEN pc' = "overlay_none" /\ ret' = ret
           ELSE IF ~GeomTruthy(g) THEN pc' = "overlay_skipped" /\ ret' = ret
           ELSE /\ ret' = again
                /\ pc' = IF again.exc # "none" THEN "overlay_error"
                         ELSE IF again.val THEN "overlay_drawn"
                         ELSE "overlay_skipped"
    /\ UNCHANGED <<lon, lat, ring, geom, resp, idx, found, run>>

NextFetch ==
    \/ RequestGet
    \/ CheckResponse
    \/ ParseJson
    \/ LoopStep
    \/ ExceptPass
    \/ ReturnNone
    \/ UseFeature

SpecFetch == InitFetch /\ [][NextFetch]_vars

(***************************************************************************)
(* The submitted lookup, lines 329-503, one step per call to a service or  *)
(* per block of page output.                                               *)
(***************************************************************************)
callVars == <<lon, lat, ring, geom, ret, resp, idx, found>>

InitFlow ==
    /\ pc = "flow_form"
    /\ \E p \in Texts, a \in AddressTexts, b \in BoxTicks :
           run = RunWith(p, a, b)
    /\ lon = Whole(0)
    /\ lat = Whole(0)
    /\ ring = <<>>
    /\ geom = NoneGeometry
    /\ ret = NoRet
    /\ resp = NoResponse
    /\ idx = 0
    /\ found = NoneFound

OuterHandler_ExceptionOnly(e) == "flow_except_exception"

\* Which handler of lines 500-503 takes an exception that leaves the try
\* block of line 331.
OuterHandler(e) ==
    IF e.exc = "RuntimeError" THEN "flow_except_runtime"
    ELSE "flow_except_exception"

Logged(r, c) == [r EXCEPT !.calls = Append(@, c)]
Raised(r, c, e) == [Logged(r, c) EXCEPT !.exc = e]

\* The note of line 342 or of line 346.
FallbackNote(postcode_in, e) ==
    IF looks_like_uk_postcode(postcode_in)
    THEN [note |-> "Note: Postcode lookup failed. Falling back to address geocoding.",
          cause |-> e.val]
    ELSE [note |-> "Input did not validate as a UK postcode. Using address geocoding.",
          cause |-> Msg("", 0, "")]

\* if submitted, lines 329-337: which branch of the geocoding is taken.
Submit ==
    /\ pc = "flow_form"
    /\ pc' = IF Strip(run.postcode_in) # <<>> THEN "flow_postcode"
             ELSE IF Strip(run.address_in) = <<>> THEN "flow_no_input"
             ELSE "flow_address"
    /\ run' = [run EXCEPT !.notes = <<>>, !.located = FALSE,
                          !.lpa_text = "Unknown", !.shown_pc = <<>>]
    /\ UNCHANGED callVars

\* lines 338-340: get_postcode_info(postcode_in.strip()); a RuntimeError is
\* caught at line 340, any other exception leaves the try block.
LookupPostcode ==
    /\ pc = "flow_postcode"
    /\ \E r \in PostcodeReplies :
           LET text == Strip(run.postcode_in)
               out == get_postcode_info(text, r)
               c == Call("get_postcode_info", text, 0, 0, out)
           IN  IF out.exc = "none"
               THEN /\ run' = [Logged(run, c) EXCEPT
                                   !.located = TRUE,
                                   !.lat = out.val.lat, !.lon = out.val.lon,
                                   !.lpa_text = out.val.lpa,
                                   !.shown_pc = out.val.postcode]
                    /\ pc' = "flow_features"
               ELSE IF out.exc = "RuntimeError"
               THEN /\ run' = Raised(run, c, out)
                    /\ pc' = "flow_fallback"
               ELSE /\ run' = Raised(run, c, out)
                    /\ pc' = OuterHandler(out)
    /\ UNCHANGED callVars

\* lines 341-343 and 345-347: the note, then the geocoder on the same text.
FallbackGeocode ==
    /\ pc = "flow_fallback"
    /\ \E r \in GeocodeReplies :
           LET text == Strip(run.postcode_in)
               noted == [run EXCEPT
                             !.notes = Append(@, FallbackNote(run.postcode_in,
                                                              run.exc)),
                             !.exc = NoException]
               out == geocode_address_nominatim(text, r)
               c == Call("geocode_address_nominatim", text, 0, 0, out)
           IN  IF out.exc = "none"
               THEN /\ run' = [Logged(noted, c) EXCEPT
                                   !.located = TRUE,
                                   !.lat = out.val.lat, !.lon = out.val.lon]
                    /\ pc' = "flow_fallback_reverse"
               ELSE /\ run' = Raised(noted, c, out)
                    /\ pc' = OuterHandler(out)
    /\ UNCHANGED callVars

\* lines 344-345 and 348-349: the reverse lookup at the fallback point.
FallbackReverse ==
    /\ pc = "flow_fallback_reverse"
    /\ \E r \in ReverseReplies :
           LET out == get_nearest_postcode_lpa_from_coords(run.lat, run.lon, r)
               c == Call("get_nearest_postcode_lpa_from_coords", <<>>,
                         run.lat, run.lon, out)
           IN  IF out.exc = "none"
               THEN /\ run' = [Logged(run, c) EXCEPT
                                   !.lpa_text = out.val.lpa,
                                   !.shown_pc = out.val.postcode]
                    /\ pc' = "flow_features"
               ELSE /\ run' = Raised(run, c, out)
                    /\ pc' = OuterHandler(out)
    /\ UNCHANGED callVars

\* lines 352-354: neither field is filled; st.stop() ends the run.
NoInputStop ==
    /\ pc = "flow_no_input"
    /\ run' = [run EXCEPT !.page =
                   Append(@, Shown("warning",
                                   Msg("Please enter either a postcode or an address.",
                                       0, ""), <<>>))]
    /\ pc' = "flow_stopped"
    /\ UNCHANGED callVars

\* line 355: the geocoder on the address.
AddressGeocode ==
    /\ pc = "flow_address"
    /\ \E r \in GeocodeReplies :
           LET text == Strip(run.address_in)
               out == geocode_address_nominatim(text, r)
               c == Call("geocode_address_nominatim", text, 0, 0, out)
           IN  IF out.exc = "none"
               THEN /\ run' = [Logged(run, c) EXCEPT
                                   !.located = TRUE,
                                   !.lat = out.val.lat, !.lon = out.val.lon]
                    /\ pc' = "flow_address_reverse"
               ELSE /\ run' = Raised(run, c, out)
                    /\ pc' = OuterHandler(out)
    /\ UNCHANGED callVars

\* lines 356-357.
AddressReverse ==
    /\ pc = "flow_address_reverse"
    /\ \E r \in ReverseReplies :
           LET out == get_nearest_postcode_lpa_from_coords(run.lat, run.lon, r)
               c == Call("get_nearest_postcode_lpa_from_coords", <<>>,
                         run.lat, run.lon, out)
           IN  IF out.exc = "none"
               THEN /\ run' = [Logged(run, c) EXCEPT
                                   !.lpa_text = out.val.lpa,
                                   !.shown_pc = out.val.postcode]
                    /\ pc' = "flow_features"
               ELSE /\ run' = Raised(run, c, out)
                    /\ pc' = OuterHandler(out)
    /\ UNCHANGED callVars

\* line 360: nca_feat = get_nca_feature(lat, lon).
QueryNcaFeature ==
    /\ pc = "flow_features"
    /\ \E r \in ArcgisReplies :
           LET out == _arcgis_point_in_polygon(run.lat, run.lon, r)
               c == Call("get_nca_feature", <<>>, run.lat, run.lon, out)
           IN  IF out.exc # "none"
               THEN run' = Raised(run, c, out) /\ pc' = OuterHandler(out)
               ELSE /\ run' = [Logged(run, c) EXCEPT !.nca_feat = out.val]
                    /\ pc' = "flow_lpa_feature"
    /\ UNCHANGED callVars

\* line 361: lpa_feat = get_lpa_feature(lat, lon).
QueryLpaFeature ==
    /\ pc = "flow_lpa_feature"
    /\ \E r \in ArcgisReplies :
           LET out == _arcgis_point_in_polygon(run.lat, run.lon, r)
               c == Call("get_lpa_feature", <<>>, run.lat, run.lon, out)
           IN  IF out.exc # "none"
               THEN run' = Raised(run, c, out) /\ pc' = OuterHandler(out)
               ELSE /\ run' = [Logged(run, c) EXCEPT !.lpa_feat = out.val]
                    /\ pc' = "flow_nca_name"
    /\ UNCHANGED callVars

\* line 362: nca_name = get_nca_name_from_feature(nca_feat) or "Not found".
NameNca ==
    /\ pc = "flow_nca_name"
    /\ LET out == get_name_from_feature(run.nca_feat)
       IN  IF out.exc # "none"
           THEN run' = [run EXCEPT !.exc = out] /\ pc' = OuterHandler(out)
           ELSE /\ run' = [run EXCEPT !.nca_name =
                               IF out.val # "" THEN out.val ELSE "Not found"]
                /\ pc' = "flow_lpa_name"
    /\ UNCHANGED callVars

\* line 363: lpa_name = get_lpa_name_from_feature(lpa_feat) or lpa_text or
\* "Unknown".
NameLpa ==
    /\ pc = "flow_lpa_name"
    /\ LET out == get_name_from_feature(run.lpa_feat)
       IN  IF out.exc # "none"
           THEN run' = [run EXCEPT !.exc = out] /\ pc' = OuterHandler(out)
           ELSE /\ run' = [run EXCEPT !.lpa_name =
                               IF out.val # "" THEN out.val
                               ELSE IF run.lpa_text # "" THEN run.lpa_text
                               ELSE "Unknown"]
                /\ pc' = "flow_panel"
    /\ UNCHANGED callVars

\* lines 366-391: the results panel.
ResultsPanel ==
    /\ pc = "flow_panel"
    /\ run' = [run EXCEPT !.page =
                   @ \o <<Shown("success", Msg("Lookup complete.", 0, ""), <<>>)>>
                     \o [k \in 1..Len(run.notes) |->
                            Shown("caption", Msg(run.notes[k].note, 0, ""), <<>>)]
                     \o (IF run.shown_pc # <<>>
                         THEN <<Shown("caption", Msg("Nearest Postcode", 0, ""),
                                      run.shown_pc)>>
                         ELSE <<>>)
                     \o <<Shown("result_box", Msg(run.lpa_name, 0, ""), <<>>),
                          Shown("result_box", Msg(run.nca_name, 0, ""), <<>>)>>]
    /\ pc' = "flow_map"
    /\ UNCHANGED callVars

\* show_lpa_nca, line 396.
show_lpa_nca(boxes) ==
    ~((boxes.show_wb \/ boxes.show_oper) /\ boxes.hide_other_layers)

\* The layer of lines 398-410 or 411-421: drawn when the boundaries are
\* shown and the feature has rings to draw.
BaseLayer(boxes, feat, name) ==
    IF show_lpa_nca(boxes) /\ _arcgis_polygon_to_geojson(GeometryOf(feat)) # "None"
    THEN <<name>> ELSE <<>>

\* lines 393-423: the map around (lat, lon) and its LPA and NCA layers.
BaseLayers ==
    /\ pc = "flow_map"
    /\ run' = [run EXCEPT !.layers =
                   BaseLayer(run.boxes, run.lpa_feat, "lpa")
                       \o BaseLayer(run.boxes, run.nca_feat, "nca")]
    /\ pc' = "flow_wb"
    /\ UNCHANGED callVars

\* if feat: geom = feat.get("geometry"); if geom and
\* geojson_contains_point(geom, lon, lat), lines 428-430 and 447-449.
OverlayTest(f, qlon, qlat) ==
    IF f.isNone \/ ~GeomTruthy(f.feature.geometry) THEN Return(FALSE)
    ELSE geojson_contains_point(f.feature.geometry, qlon, qlat)

\* bounds.extend(part[0]) for every part of a MultiPolygon, lines 440-442 and
\* 461-463: an empty part has no first ring.  The outer ring of a Polygon
\* that contains the point exists.
BoundsRaise(g) ==
    /\ g.hasType /\ g.type = "MultiPolygon" /\ g.ctag = "list"
    /\ \E k \in 1..Len(g.coordinates) : g.coordinates[k] = <<>>

\* The body of "if wb_feat:" and of "if oc_feat:", lines 428-442 and 447-463,
\* for the feature f, the layer's tag and the name the properties give: the
\* layer added, the name bound, and the exception raised.  With properties
\* of null, feat.get("properties", {}).get(key) of lines 431 and 450-451 is
\* a get on None.
OverlayOutcome(f, qlon, qlat, tag, name) ==
    LET drawn == OverlayTest(f, qlon, qlat)
        skip == [layers |-> <<>>, name |-> "", exc |-> NoException]
    IN  IF drawn.exc # "none"
        THEN [skip EXCEPT !.exc = RaiseMsg(drawn.exc, Msg("", 0, ""))]
        ELSE IF ~drawn.val THEN skip
        ELSE IF f.feature.properties.ptag = "null"
        THEN [skip EXCEPT !.exc =
                  RaiseMsg("AttributeError", Msg("NoneType has no get", 0, ""))]
        ELSE [layers |-> <<tag>>, name |-> name,
              exc |-> IF BoundsRaise(f.feature.geometry)
                      THEN RaiseMsg("IndexError",
                                    Msg("list index out of range", 0, ""))
                      ELSE NoException]

\* wb_feat.get("properties", {}).get("water_body_name") or "Water body
\* catchment", line 431.
WaterBodyName(feat) ==
    FirstTruthy(<<feat.properties.water_body_name>>, "Water body catchment")

\* lines 450-452.
OperationalName(feat) ==
    FirstTruthy(<<feat.properties.operational_catchment, feat.properties.name>>,
                "Operational catchment")

\* lines 426-442: with the water-body box ticked, one request to the EA
\* service, and the layer of the catchment that contains the point.
WaterBodyOverlay ==
    /\ pc = "flow_wb"
    /\ IF ~run.boxes.show_wb
       THEN run' = run /\ pc' = "flow_oper"
       ELSE \E r \in OverlayReplies :
            \E f \in {get_catchment(Whole(run.lat), Whole(run.lon), r)} :
            \E out \in {OverlayOutcome(f, Whole(run.lon), Whole(run.lat), "wb",
                                        WaterBodyName(f.feature))} :
                LET c == Call("get_water_body_catchment", <<>>, run.lat, run.lon,
                              Return(f))
                IN  /\ run' = [Logged(run, c) EXCEPT
                                   !.wb_feat = f,
                                   !.wb_name = out.name,
                                   !.layers = @ \o out.layers,
                                   !.exc = IF out.exc.exc # "none" THEN out.exc ELSE @]
                    /\ pc' = IF out.exc.exc # "none" THEN "flow_except_exception"
                             ELSE "flow_oper"
    /\ UNCHANGED callVars

\* lines 445-463: likewise for the operational catchment.
OperationalOverlay ==
    /\ pc = "flow_oper"
    /\ IF ~run.boxes.show_oper
       THEN run' = run /\ pc' = "flow_show"
       ELSE \E r \in OverlayReplies :
            \E f \in {get_catchment(Whole(run.lat), Whole(run.lon), r)} :
            \E out \in {OverlayOutcome(f, Whole(run.lon), Whole(run.lat), "oper",
                                        OperationalName(f.feature))} :
                LET c == Call("get_operational_catchment", <<>>, run.lat, run.lon,
                              Return(f))
                IN  /\ run' = [Logged(run, c) EXCEPT
                                   !.oc_feat = f,
                                   !.oc_name = out.name,
                                   !.layers = @ \o out.layers,
                                   !.exc = IF out.exc.exc # "none" THEN out.exc ELSE @]
                    /\ pc' = IF out.exc.exc # "none" THEN "flow_except_exception"
                             ELSE "flow_show"
    /\ UNCHANGED callVars

\* lines 466-498: the marker, the bounds and st_folium; the map is shown
\* with the layers added so far, unless the building of the map raises.
ShowMap ==
    /\ pc = "flow_show"
    /\ \/ /\ run' = [run EXCEPT !.page =
                         Append(@, Shown("map", Msg("", run.lat, ""), run.layers))]
          /\ pc' = "flow_done"
       \/ /\ run' = [run EXCEPT !.exc =
                         RaiseMsg("Exception", Msg("map layer", 0, ""))]
          /\ pc' = "flow_except_exception"
    /\ UNCHANGED callVars

\* except RuntimeError as e: st.error(str(e)), lines 500-501.
HandleRuntimeError ==
    /\ pc = "flow_except_runtime"
    /\ run' = [run EXCEPT !.page = Append(@, Shown("error", run.exc.val, <<>>))]
    /\ pc' = "flow_done"
    /\ UNCHANGED callVars

\* except Exception as e: st.error(f"Unexpected error: {e}"), lines 502-503.
HandleException ==
    /\ pc = "flow_except_exception"
    /\ run' = [run EXCEPT !.page =
                   Append(@, Shown("unexpected_error", run.exc.val, <<>>))]
    /\ pc' = "flow_done"
    /\ UNCHANGED callVars

NextFlow ==
    \/ Submit
    \/ LookupPostcode
    \/ FallbackGeocode
    \/ FallbackReverse
    \/ NoInputStop
    \/ AddressGeocode
    \/ AddressReverse
    \/ QueryNcaFeature
    \/ QueryLpaFeature
    \/ NameNca
    \/ NameLpa
    \/ ResultsPanel
    \/ BaseLayers
    \/ WaterBodyOverlay
    \/ OperationalOverlay
    \/ ShowMap
    \/ HandleRuntimeError
    \/ HandleException

SpecFlow == InitFlow /\ [][NextFlow]_vars
\* The script runs to its end: no step of a run waits for ever.
SpecFlowFair == SpecFlow /\ WF_vars(NextFlow)

Init == InitRing \/ InitGeom \/ InitFetch \/ InitFlow
Next == NextRing \/ NextGeom \/ NextFetch \/ NextFlow
Spec == Init /\ [][Next]_vars

(***************************************************************************)
(* Geometry of the claims, stated without the operators of the model.      *)
(***************************************************************************)
\* q lies on the closed segment from p1 to p2 (a vertex included).
\* The sign of a + b * 2^-48 and of a + b * 2^-48 + c * 2^-96, for integers
\* whose lower terms stay below one unit of the term above.
Sign2(a, b) == IF a # 0 THEN a ELSE b
Sign3(a, b, c) == IF a # 0 THEN a ELSE IF b # 0 THEN b ELSE c

OnSegment(q, p1, p2) ==
    LET dx == p2[1] - p1[1]
        dy == p2[2] - p1[2]
    IN  /\ dx * (q[2].int - p1[2]) - dy * (q[1].int - p1[1]) = 0
        /\ dx * q[2].frac - dy * q[1].frac = 0
        /\ Sign3((q[1].int - p1[1]) * (q[1].int - p2[1])
                    + (q[2].int - p1[2]) * (q[2].int - p2[2]),
                  q[1].frac * (2 * q[1].int - p1[1] - p2[1])
                    + q[2].frac * (2 * q[2].int - p1[2] - p2[2]),
                  q[1].frac * q[1].frac + q[2].frac * q[2].frac) <= 0

\* The cyclic successor of position k in a ring of n points.
CyclicSucc(k, n) == IF k = n THEN 1 ELSE k + 1

OnSomeEdge(q, r) ==
    \E k \in 1..Len(r) : OnSegment(q, r[k], r[CyclicSucc(k, Len(r))])

\* The edge from p1 to p2 is counted for q: its latitudes straddle q's, and its
\* longitude at q's latitude, x1 + (x2 - x1)(qy - y1)/(y2 - y1), exceeds q's.
EdgeCounted(q, p1, p2) ==
    LET lo == IF p1[2] < p2[2] THEN p1 ELSE p2
        hi == IF p1[2] < p2[2] THEN p2 ELSE p1
    IN  /\ Less(q[2], Whole(p1[2])) # Less(q[2], Whole(p2[2]))
        /\ Sign2((hi[1] - lo[1]) * (q[2].int - lo[2])
                    - (q[1].int - lo[1]) * (hi[2] - lo[2]),
                  (hi[1] - lo[1]) * q[2].frac - q[1].frac * (hi[2] - lo[2])) > 0

CountedEdges(q, r) ==
    {k \in 1..Len(r) : EdgeCounted(q, r[k], r[CyclicSucc(k, Len(r))])}

Odd(n) == n % 2 = 1

RECURSIVE ReverseRing(_)
ReverseRing(r) ==
    IF r = <<>> THEN <<>> ELSE Append(ReverseRing(Tail(r)), Head(r))

\* r with a copy of its k-th vertex inserted right after it.
InsertCopyAfter(r, k) == SubSeq(r, 1, k) \o SubSeq(r, k, Len(r))

\* r closed explicitly: its first vertex repeated at the end.
CloseExplicitly(r) == Append(r, r[1])

RingDone == pc = "ring_done"
Query == <<lon, lat>>
\* A vertex as a query point.
Vertex(p) == <<Whole(p[1]), Whole(p[2])>>
\* The edge-inclusive test of lines 84-86 accepts the query point on the edge
\* that leaves the k-th vertex of r.
EdgeAccepts(r, k) ==
    OnEdgeTest(lon, lat, r[k][1], r[k][2],
               r[CyclicSucc(k, Len(r))][1], r[CyclicSucc(k, Len(r))][2])
SomeEdgeAccepts(r) == \E k \in 1..Len(r) : EdgeAccepts(r, k)
\* The query point is in the bounding box of lines 84-85 of a zero-length edge
\* at the k-th vertex of r: within 1e-12 of it in both coordinates.
InVertexBox(r, k) == WithinBBox(lon, lat, r[k][1], r[k][2], r[k][1], r[k][2])

C6_ShortRingIsFalse ==
    (RingDone /\ Len(ring) < 3) => ret = Return(FALSE)

C6_Witness ==
    /\ RingDone /\ Len(ring) = 2 /\ ring[1] # ring[2]
    /\ OnSegment(Query, ring[1], ring[2])
    /\ Query # Vertex(ring[1]) /\ Query # Vertex(ring[2])
    /\ ret = Return(FALSE)

\* C7: a ring of at least 3 points and the same ring with its vertex order
\* reversed give the same result for every query point.
C7_WindingOrderIndependent ==
    (RingDone /\ Len(ring) >= 3) => ret = _point_in_ring(lon, lat, ReverseRing(ring))

\* The ring (0,0), (0,64), (64,64) and the point (-6 * 2^-48, -2 * 2^-48)
\* beside its first vertex: False for the ring, True for the reversed ring.
C7_Witness ==
    /\ RingDone /\ ring = <<(<<0, 0>>), (<<0, 64>>), (<<64, 64>>)>>
    /\ lon = Dbl(0, -6) /\ lat = Dbl(0, -2)
    /\ ret = Return(FALSE)
    /\ _point_in_ring(lon, lat, ReverseRing(ring)) = Return(TRUE)

GeomDone == pc = "geom_done"
InRing(r) == _point_in_ring(lon, lat, r) = Return(TRUE)
IsPolygon(g) == ~g.isNone /\ g.hasType /\ g.type = "Polygon"
IsMultiPolygon(g) == ~g.isNone /\ g.hasType /\ g.type = "MultiPolygon"
\* The rings of a Polygon, the members of a MultiPolygon: none unless a list.
Items(g) == IF g.ctag = "list" THEN g.coordinates ELSE <<>>

\* C1: a "Polygon" with a non-empty list of rings contains the point iff
\* _point_in_ring holds of ring 0 and of none of the rings after it.
C1_PolygonIsOuterMinusHoles ==
    (GeomDone /\ IsPolygon(geom) /\ Len(Items(geom)) >= 1) =>
        ret = Return(/\ InRing(Items(geom)[1])
                     /\ \A j \in 2..Len(Items(geom)) : ~InRing(Items(geom)[j]))

\* A point inside the outer ring and outside the hole of a polygon with a hole.
C1_Witness ==
    /\ GeomDone /\ IsPolygon(geom) /\ Len(Items(geom)) = 2
    /\ Len(Items(geom)[2]) >= 3
    /\ ~OnSomeEdge(Query, Items(geom)[1])
    /\ ret = Return(TRUE)

PermutedMembers(g, f) ==
    Geometry("MultiPolygon", [k \in 1..Len(Items(g)) |-> Items(g)[f[k]]])

\* C4: a "MultiPolygon" contains the point iff at least one member, taken on
\* its own as a "Polygon", contains it; the order of the members is immaterial.
C4_MultiPolygonIsAnyMember ==
    (GeomDone /\ IsMultiPolygon(geom)) =>
        /\ (ret = Return(TRUE)) <=>
               \E m \in 1..Len(Items(geom)) :
                   geojson_contains_point(Geometry("Polygon", Items(geom)[m]),
                                          lon, lat) = Return(TRUE)
        /\ geom.ctag = "list" =>
               \A f \in Permutations(1..Len(Items(geom))) :
                   geojson_contains_point(PermutedMembers(geom, f), lon, lat) = ret

\* Two different members with holes, only the second of which contains the point.
C4_Witness ==
    /\ GeomDone /\ IsMultiPolygon(geom) /\ Len(Items(geom)) = 2
    /\ Len(Items(geom)[1]) = 2 /\ Len(Items(geom)[2]) = 2
    /\ InRing(Items(geom)[1][1])
    /\ geojson_contains_point(Geometry("Polygon", Items(geom)[1]), lon, lat)
           = Return(FALSE)
    /\ ret = Return(TRUE)

\* The malformed and absent geometries of C5.
Malformed(g) ==
    \/ g.isNone
    \/ ~g.hasType
    \/ g.type \notin {"Polygon", "MultiPolygon"}
    \/ g.ctag \in {"missing", "null"}
    \/ g.ctag = "list" /\ Len(g.coordinates) = 0
    \/ /\ g.type = "MultiPolygon" /\ g.ctag = "list"
       /\ \A m \in 1..Len(g.coordinates) : Len(g.coordinates[m]) = 0

\* C5: for None, the empty dict, a geometry without "type" or of another type,
\* missing, null or empty "coordinates", and a MultiPolygon of empty members,
\* geojson_contains_point returns False and raises nothing.
C5_MalformedIsFalse ==
    (GeomDone /\ Malformed(geom)) => ret = Return(FALSE)

\* A MultiPolygon whose "coordinates" is null.
C5_Witness ==
    /\ GeomDone /\ IsMultiPolygon(geom) /\ geom.ctag = "null"
    /\ ret = Return(FALSE)

FetchReturned ==
    pc \in {"fetch_done", "overlay_none", "overlay_drawn", "overlay_skipped",
            "overlay_error"}
\* The service answered with status 200 and a GeoJSON content type.
Accepted ==
    ~resp.raises /\ resp.status = HTTP_OK /\ resp.ctype \in GeoJsonTypes
\* ... and its body is a JSON object.
Parsed == Accepted /\ resp.body.kind = "object"
Returned == IF Parsed /\ resp.body.ftag = "list" THEN resp.body.features ELSE <<>>
ContainsAt(i) ==
    /\ Returned[i].isDict
    /\ GeomTruthy(Returned[i].geometry)
    /\ geojson_contains_point(Returned[i].geometry, lon, lat) = Return(TRUE)
\* Handling feature i raises: it is no dict, or its geometry makes
\* geojson_contains_point raise.
FailsAt(i) ==
    \/ ~Returned[i].isDict
    \/ /\ GeomTruthy(Returned[i].geometry)
       /\ geojson_contains_point(Returned[i].geometry, lon, lat).exc # "none"
FirstContaining(i) == ContainsAt(i) /\ \A j \in 1..(i - 1) : ~ContainsAt(j)
FailsBeforeMatch ==
    \E i \in 1..Len(Returned) : FailsAt(i) /\ \A j \in 1..(i - 1) : ~ContainsAt(j)

\* C10: _fetch_feature_containing_point never raises; a result other than None
\* is the first returned feature, in response order, whose geometry satisfies
\* geojson_contains_point, so it passes the caller's second test; the result is
\* None when no returned feature contains the point, when the status is not
\* 200 or the content type is not GeoJSON, and when the request or the
\* handling of the response raises; otherwise the first containing feature
\* is returned.
C10_FetchReturnsFirstContaining ==
    /\ pc # "fetch_raised"
    /\ pc \notin {"overlay_skipped", "overlay_error"}
    /\ FetchReturned =>
           /\ ~found.isNone =>
                  /\ found.pos \in 1..Len(Returned)
                  /\ found.feature = Returned[found.pos]
                  /\ FirstContaining(found.pos)
           /\ (\/ resp.raises
               \/ resp.status # HTTP_OK
               \/ resp.ctype \notin GeoJsonTypes
               \/ resp.body.kind # "object"
               \/ FailsBeforeMatch
               \/ \A i \in 1..Len(Returned) : ~ContainsAt(i)) => found.isNone
           /\ (~FailsBeforeMatch /\ \E i \in 1..Len(Returned) : ContainsAt(i))
                  => ~found.isNone

\* The second of three features is returned although the third contains the
\* point too, and the caller draws it.
C10_Witness ==
    /\ pc = "overlay_drawn"
    /\ Len(Returned) = 3 /\ found.pos = 2
    /\ GeomTruthy(Returned[1].geometry)
    /\ ContainsAt(3)
    /\ Returned[3] # Returned[2]

(***************************************************************************)
(* The fallback of the submitted lookup.                                   *)
(***************************************************************************)
NthCall(k) == run.calls[k]
Called(k, fn) == Len(run.calls) >= k /\ NthCall(k).fn = fn
ReturnedAt(k) == Len(run.calls) >= k /\ NthCall(k).exc = "none"
\* The postcode lookup was made and raised RuntimeError.
PostcodeRaised ==
    /\ Called(1, "get_postcode_info")
    /\ NthCall(1).exc = "RuntimeError"
FallbackGeocoded == PostcodeRaised /\ Called(2, "geocode_address_nominatim")
FallbackReversed ==
    FallbackGeocoded /\ Called(3, "get_nearest_postcode_lpa_from_coords")
FeatureQueries == {"get_nca_feature", "get_lpa_feature"}
OverlayQueries == {"get_water_body_catchment", "get_operational_catchment"}
FeaturesQueried == \E k \in 1..Len(run.calls) : NthCall(k).fn \in FeatureQueries
OnPage(kind) == \E k \in 1..Len(run.page) : run.page[k].kind = kind
PanelOrMap == OnPage("success") \/ OnPage("result_box") \/ OnPage("map")
RunEnded == pc = "flow_done"
GeocoderErrors ==
    {"Nominatim error HTTP", "No geocoding result for that address.",
     "Geocoder did not return coordinates."}

\* What holds of every state of a run whose postcode lookup raised
\* RuntimeError, once the fallback has made its first call.
FallbackShape ==
    (PostcodeRaised /\ pc # "flow_fallback") =>
        /\ Strip(run.postcode_in) # <<>>
        /\ Len(run.notes) = 1
        /\ FallbackGeocoded
        /\ NthCall(2).text = NthCall(1).text
        /\ NthCall(2).text = Strip(run.postcode_in)
        /\ Len(run.calls) >= 3 =>
               /\ ReturnedAt(2)
               /\ FallbackReversed
               /\ NthCall(3).lat = NthCall(2).got[1]
               /\ NthCall(3).lon = NthCall(2).got[2]
        /\ \A k \in 4..Len(run.calls) :
               /\ ReturnedAt(3)
               /\ NthCall(k).fn \in (IF k <= 5 THEN FeatureQueries
                                      ELSE OverlayQueries)
               /\ NthCall(k).lat = NthCall(2).got[1]
               /\ NthCall(k).lon = NthCall(2).got[2]
        /\ FeaturesQueried => Called(4, "get_nca_feature")
        /\ (RunEnded /\ ReturnedAt(2) /\ ReturnedAt(3)) => FeaturesQueried
        /\ (RunEnded /\ ReturnedAt(2)) => FallbackReversed
        /\ (RunEnded /\ NthCall(2).exc = "RuntimeError") =>
               /\ run.exc.exc = "RuntimeError"
               /\ run.exc.val.text \in GeocoderErrors
               /\ run.page = <<Shown("error", run.exc.val, <<>>)>>
        /\ (RunEnded /\ (~ReturnedAt(2) \/ (Len(run.calls) >= 3 /\ ~ReturnedAt(3)))
                     /\ NthCall(2).exc # "RuntimeError") =>
               /\ run.exc.exc = NthCall(Len(run.calls)).exc
               /\ run.page = <<Shown("unexpected_error", run.exc.val, <<>>)>>

\* The results panel and the map come only after a call returned the
\* coordinates, and the feature queries after that call.
PanelOnlyWithCoordinates ==
    PanelOrMap =>
        /\ run.located
        /\ \E i \in 1..Len(run.calls) :
               /\ NthCall(i).fn \in {"get_postcode_info", "geocode_address_nominatim"}
               /\ NthCall(i).exc = "none"
               /\ NthCall(i).got[1] = run.lat
               /\ NthCall(i).got[2] = run.lon
               /\ \A k \in 1..Len(run.calls) :
                      NthCall(k).fn \in FeatureQueries => k > i
        /\ OnPage("map") => OnPage("success")

\* C11 as stated: once the postcode lookup has raised RuntimeError, the
\* run goes on to the NCA/LPA feature queries, unless the fallback geocoder
\* raises RuntimeError.  The geocoder can raise another exception, and the
\* reverse lookup can raise: then no feature query is made.
C11_AsStated ==
    (pc = "flow_fallback") ~>
        (FeaturesQueried \/ (FallbackGeocoded /\ NthCall(2).exc = "RuntimeError"))

\* C11, amended: in a submitted lookup with a non-blank postcode field, when
\* the postcode lookup raises RuntimeError the flow records exactly one note
\* and geocodes the same stripped postcode text as free text; when the
\* geocoder returns it runs the reverse postcode lookup at the returned
\* coordinates, and when that returns too it goes on to the NCA/LPA feature
\* queries with the fallback coordinates.  The results panel and the map are
\* reached only after coordinates were obtained.  When the fallback geocoder
\* raises RuntimeError the run ends with that error's message and no results
\* panel or map; when the geocoder raises another exception or the reverse
\* lookup raises, it ends with the unexpected-error message and no results
\* panel or map.
C11_FallbackContinuesWhenCallsReturn ==
    /\ [](FallbackShape /\ PanelOnlyWithCoordinates)
    /\ (pc = "flow_fallback") ~> RunEnded

\* A run whose postcode text needed stripping: the lookup raised, the
\* fallback returned coordinates, both feature queries and the water-body
\* request were made there, and the panel with its one note and the map
\* were shown.
C11_Witness ==
    /\ RunEnded
    /\ FallbackReversed /\ ReturnedAt(3)
    /\ Strip(run.postcode_in) # run.postcode_in
    /\ Called(5, "get_lpa_feature")
    /\ NthCall(5).lat = 2 /\ NthCall(5).lon = 2
    /\ Called(6, "get_water_body_catchment")
    /\ OnPage("map")
    /\ Len(run.notes) = 1
    /\ run.page[2] = Shown("caption", Msg(run.notes[1].note, 0, ""), <<>>)

====
